---- MODULE Spec2Model ----
(***************************************************************************)
(* State machine of the trade game of src/app.py: the exchange-rate table  *)
(* (st.session_state.rates / original_rates / news_active), the accounts   *)
(* of the four countries (st.session_state.countries), the transaction     *)
(* ledger (st.session_state.transactions) and the trade-form handler.      *)
(*                                                                         *)
(* One action is one script run of the Streamlit application caused by one *)
(* user interaction.  Amounts and rates are floats in the program; the     *)
(* model draws them from integers, on which the handler's arithmetic       *)
(* (+, -, *, and / by rates['KRW'] = 1) is exact.  The timestamp column of *)
(* a ledger row (datetime.now()) is not part of the modelled record.  In   *)
(* the specifications of the session (Spec, SpecSession, SpecTrade) the    *)
(* currency calculator of tab 2 is left at its default amount 0, for which *)
(* line 168 skips the conversion; SpecCalc is the calculator in use on a   *)
(* freshly initialized session.                                            *)
(* Country and resource names are written in ASCII.                        *)
(***************************************************************************)
EXTENDS Integers, Sequences, FiniteSets, TLC

VARIABLES
    initialized,     \* 'initialized' in st.session_state
    calculator,      \* the calculator of tab 2: its three fields and what it shows
    fetched_rates,   \* value returned by fetch_exchange_rates() at initialization
    rates,           \* st.session_state.rates
    original_rates,  \* st.session_state.original_rates
    news_active,     \* st.session_state.news_active
    countries,       \* st.session_state.countries
    transactions,    \* st.session_state.transactions (rows, oldest first)
    message          \* what the last script run reported: st.error / st.success / exception

vars == <<initialized, calculator, fetched_rates, rates, original_rates, news_active,
          countries, transactions, message>>

-----------------------------------------------------------------------------
(* Bounds of the model *)

\* most rows the ledger may hold before the form is no longer submitted
MaxTrades == 2

\* values typed into the price field (min_value = 0.0)
Prices == {0, 40}

\* currencies chosen in the currency field of the trade form
TradeCurrencies == {"KRW", "USD", "JPY"}

\* values typed into the quantity field (min_value = 1)
Quantities == {3}

\* texts typed into the item field
Items == {"cocoa"}

\* values typed into a rate field of the emergency-news panel (no min_value)
RateInputs == {0}

-----------------------------------------------------------------------------
(* Values *)

None == "None"
ZeroDivisionError == "ZeroDivisionError"

CountryNames == {"Korea", "USA", "Japan", "China"}

\* the countries chosen in the two country fields of the trade form
Traders == {"Korea", "USA"}

\* base_rates of initialize_game
base_rates == [KRW |-> 1, USD |-> 1400, JPY |-> 9, CNY |-> 195]

\* results of fetch_exchange_rates(): an error dictionary, or a rate
\* dictionary holding KRW and the currencies found in the response
FetchErrors == { [error |-> "empty"], [error |-> "request"], [error |-> "parse"] }

FetchResults ==
    { [error |-> "request"],
      [KRW |-> 1, JPY |-> 9] }

\* the results the initialization is checked on: every error, a response
\* with all three currencies, one without USD and CNH, one with none of them
SessionFetchResults ==
    FetchErrors \cup { [KRW |-> 1, USD |-> 1380, JPY |-> 9, CNY |-> 190],
                       [KRW |-> 1, JPY |-> 9],
                       [KRW |-> 1] }

\* exceptions of fetch_exchange_rates that neither except clause (lines 50,
\* 52) catches: a response body that is a JSON object makes item a string
\* and item['cur_unit'] a TypeError (line 42); a matching item whose 'tts'
\* is null makes item['tts'].replace an AttributeError (lines 43-47)
FetchRaises == {"TypeError", "AttributeError"}

\* values typed into the amount field of the calculator (min_value = 0.0)
CalcAmounts == {0, 1, 9, 1400}

\* the order in which the emergency-news panel assigns the rates
NewsCurrencies == <<"USD", "JPY", "CNY">>

-----------------------------------------------------------------------------
(* Pure functions *)

\* Python's true division on the modelled numbers: the exact quotient when it
\* is an integer, the fraction as a pair otherwise
Quotient(n, d) ==
    IF d = 0 THEN ZeroDivisionError
    ELSE LET nn == IF d < 0 THEN 0 - n ELSE n
             dd == IF d < 0 THEN 0 - d ELSE d
         IN IF nn % dd = 0 THEN nn \div dd ELSE <<nn, dd>>

\* variant: line 62 is missing, the amount in KRW is returned
convert_currency_no_division(amount, from_currency, to_currency, r) ==
    IF from_currency \notin DOMAIN r \/ to_currency \notin DOMAIN r
    THEN None
    ELSE amount * r[from_currency]

\* lines 55-63
convert_currency(amount, from_currency, to_currency, r) ==
    IF from_currency \notin DOMAIN r \/ to_currency \notin DOMAIN r
    THEN None
    ELSE Quotient(amount * r[from_currency], r[to_currency])

RECURSIVE SumOver(_, _, _)
\* sum(convert_currency(amt, cur, 'KRW', rates) for cur, amt in funds.items())
\* over the keys in S; the caller has excluded the None summands
SumOver(S, funds, r) ==
    IF S = {} THEN 0
    ELSE LET cur == CHOOSE c \in S : TRUE
         IN convert_currency(funds[cur], cur, "KRW", r) + SumOver(S \ {cur}, funds, r)

\* line 198 raises TypeError when a summand is None
SumRaises(funds, r) == \E cur \in DOMAIN funds : cur \notin DOMAIN r

\* variant: the sum of line 198 over the table as it was before any override
buyer_total_krw_original(funds, r) == SumOver(DOMAIN funds, funds, original_rates)

\* line 198
buyer_total_krw(funds, r) == SumOver(DOMAIN funds, funds, r)

\* variant: the price is compared and debited without conversion
price_in_krw_unconverted(price, currency, r) == price

price_in_krw(price, currency, r) == convert_currency(price, currency, "KRW", r)

\* f"{item} {quantity}gae"
new_item_str(item, quantity) == item \o " " \o ToString(quantity) \o "gae"

-----------------------------------------------------------------------------
(* initialize_game *)

InitialRates(fetched) ==
    IF "error" \in DOMAIN fetched THEN base_rates ELSE fetched

InitialCountries ==
    [c \in CountryNames |->
        CASE c = "Korea" -> [resources |-> <<"rice", "electronics">>,
                             funds |-> [KRW |-> 50000]]
          [] c = "USA"   -> [resources |-> <<"wheat", "cacao">>,
                             funds |-> [USD |-> 30]]
          [] c = "Japan" -> [resources |-> <<"car", "milk">>,
                             funds |-> [JPY |-> 5000]]
          [] c = "China" -> [resources |-> <<"toy", "sugar">>,
                             funds |-> [CNY |-> 250]]]

\* the calculator before it is used: amount 0.0 and the first option of the
\* two select boxes, the first key of rates
calculator_default ==
    [amount |-> 0, from_curr |-> "KRW", to_curr |-> "KRW", converted |-> "none"]

\* the session on arrival: st.session_state holds nothing
SessionStart ==
    /\ initialized = FALSE
    /\ calculator = calculator_default
    /\ fetched_rates = <<>>
    /\ rates = <<>>
    /\ original_rates = <<>>
    /\ news_active = FALSE
    /\ countries = <<>>
    /\ transactions = <<>>
    /\ message = "none"

\* the session after the first script run
InitWith(F) ==
    /\ initialized = TRUE
    /\ calculator = calculator_default
    /\ fetched_rates \in F
    /\ rates = InitialRates(fetched_rates)
    /\ original_rates = rates
    /\ news_active = FALSE
    /\ countries = InitialCountries
    /\ transactions = <<>>
    /\ message = "none"

Init == InitWith(FetchResults)

-----------------------------------------------------------------------------
(* Tab 2: the emergency-news panel and the rate board, run by every script *)
(* run before the trade form of tab 3 is reached                           *)

\* lines 132-136 read rates['USD'], rates['JPY'], rates['CNY'] in this order
NewsPanelRaises(r) ==
    \E i \in 1..Len(NewsCurrencies) : NewsCurrencies[i] \notin DOMAIN r

\* the rate field of NewsCurrencies[i] is on the page: lines 132.. reached it
RateFieldShown(i, r) ==
    \A j \in 1..i : NewsCurrencies[j] \in DOMAIN r

\* the exception that ends a script run before tab 3, or "none"
PageError(r, active) ==
    IF active /\ NewsPanelRaises(r) THEN "KeyError_rates"
    ELSE IF Cardinality(DOMAIN r) - 1 = 0 THEN "StreamlitAPIException"
    ELSE "none"

\* what a script run without a form submission reports: the exception that
\* ended it, else the st.warning of line 128 or the st.success of line 141
PanelMessage(r, active, shown) ==
    IF PageError(r, active) # "none" THEN PageError(r, active) ELSE shown

\* the trade form of tab 3 was drawn by the last script run
FormRendered == PageError(rates, news_active) = "none"

\* variant: line 80 without the deep copy, original_rates being the same
\* dictionary as rates
original_after_write_aliased(orig, new_rates) == new_rates

\* original_rates is a deep copy (line 80): writing rates leaves it alone
original_after_write(orig, new_rates) == orig

\* variant: line 140 is missing, the overridden table stays
restored_rates_skipped(orig) == rates

\* line 140
restored_rates(orig) == orig

\* every statement of initialize_game has run: the page below line 97 finds
\* what it reads in st.session_state
SessionComplete == initialized /\ DOMAIN countries # {}

\* the first script run of a session: initialize_game (lines 67-94) with the
\* value fetch_exchange_rates returned, then the page with the toggle off.
\* Every later script run calls initialize_game too and finds 'initialized'.
FirstRun(fetched) ==
    /\ ~initialized
    /\ initialized' = TRUE
    /\ fetched_rates' = fetched
    /\ rates' = InitialRates(fetched)
    /\ original_rates' = rates'
    /\ news_active' = FALSE
    /\ countries' = InitialCountries
    /\ transactions' = <<>>
    /\ message' = PageError(rates', FALSE)
    /\ UNCHANGED calculator

\* the first script run when fetch_exchange_rates raises: line 68 has set
\* 'initialized', line 72 raises, lines 74-94 are not reached
FirstRunRaises(exc) ==
    /\ ~initialized
    /\ initialized' = TRUE
    /\ message' = exc
    /\ UNCHANGED <<calculator, fetched_rates, rates, original_rates, news_active,
                   countries, transactions>>

\* a later script run of such a session: initialize_game returns at line 67
\* and line 108 reads st.session_state.countries, which was never set
RunIncomplete ==
    /\ initialized /\ ~SessionComplete
    /\ message' = "AttributeError_countries"
    /\ UNCHANGED <<initialized, calculator, fetched_rates, rates, original_rates,
                   news_active, countries, transactions>>

\* the toggle is switched on: lines 126-136 with the fields at their defaults
ToggleOn ==
    /\ SessionComplete
    /\ ~news_active
    /\ news_active' = TRUE
    /\ rates' = rates
    /\ original_rates' = original_after_write(original_rates, rates')
    /\ message' = PanelMessage(rates', TRUE, "news_warning")
    /\ UNCHANGED <<initialized, calculator, fetched_rates, countries, transactions>>

\* the toggle is on and the user types new_rate into the field of NewsCurrencies[i]
Override(i, new_rate) ==
    /\ SessionComplete
    /\ news_active
    /\ RateFieldShown(i, rates)
    /\ news_active' = TRUE
    /\ rates' = [rates EXCEPT ![NewsCurrencies[i]] = new_rate]
    /\ original_rates' = original_after_write(original_rates, rates')
    /\ message' = PanelMessage(rates', TRUE, "news_warning")
    /\ UNCHANGED <<initialized, calculator, fetched_rates, countries, transactions>>

\* the toggle is switched off: lines 137-141
ToggleOff ==
    /\ SessionComplete
    /\ news_active
    /\ news_active' = FALSE
    /\ rates' = restored_rates(original_rates)
    /\ message' = PanelMessage(rates', FALSE, "news_ended")
    /\ UNCHANGED <<initialized, calculator, fetched_rates, original_rates,
                   countries, transactions>>

\* the calculator of tab 2 is used: lines 159-170 of a script run that got
\* past line 150.  converted is the value bound at line 169, "none" when
\* line 168 skips the conversion.
Calculate(amount, from_curr, to_curr) ==
    /\ SessionComplete
    /\ PageError(rates, news_active) = "none"
    /\ amount \in CalcAmounts
    /\ from_curr \in DOMAIN rates /\ to_curr \in DOMAIN rates
    /\ calculator' =
          [amount |-> amount, from_curr |-> from_curr, to_curr |-> to_curr,
           converted |-> IF amount > 0
                         THEN convert_currency(amount, from_curr, to_curr, rates)
                         ELSE "none"]
    /\ message' = IF amount > 0 /\ rates[to_curr] = 0 THEN ZeroDivisionError
                  ELSE IF news_active THEN "news_warning" ELSE "none"
    /\ UNCHANGED <<initialized, fetched_rates, rates, original_rates, news_active,
                   countries, transactions>>

-----------------------------------------------------------------------------
(* Tab 3: the submit handler of trade_form, lines 189-241 *)

KeyError == "KeyError"

\* variant: the check of line 190 is missing
SameParticipant_dropped(seller, buyer) == FALSE

\* line 190
SameParticipant(seller, buyer) == seller = buyer

\* variant: the check of line 201 is missing
InsufficientFunds_dropped(total_krw, p_krw) == FALSE

\* line 201
InsufficientFunds(total_krw, p_krw) == total_krw < p_krw

\* lines 206-218 on the buyer's funds dictionary; KeyError when line 218
\* subscripts a dictionary without 'KRW'
buyer_debit(buyer_funds, price, currency, r) ==
    IF currency \in DOMAIN buyer_funds
    THEN IF buyer_funds[currency] >= price
         THEN [buyer_funds EXCEPT ![currency] = @ - price]
         ELSE LET needed_in_krw ==
                      convert_currency(price - buyer_funds[currency], currency, "KRW", r)
                  zeroed == [buyer_funds EXCEPT ![currency] = 0]
              IN IF "KRW" \in DOMAIN zeroed
                 THEN [zeroed EXCEPT !["KRW"] = @ - needed_in_krw]
                 ELSE zeroed
    ELSE IF "KRW" \in DOMAIN buyer_funds
         THEN [buyer_funds EXCEPT !["KRW"] = @ - price_in_krw(price, currency, r)]
         ELSE KeyError

\* line 218 subscripts buyer_funds['KRW'] for a buyer holding neither the
\* trade currency nor KRW
DebitRaises(buyer_funds, currency) ==
    currency \notin DOMAIN buyer_funds /\ "KRW" \notin DOMAIN buyer_funds

\* variant: lines 221-224 with 'KRW' as the key in place of currency
seller_credit_to_reference(seller_funds, price, currency) ==
    IF "KRW" \in DOMAIN seller_funds
    THEN [seller_funds EXCEPT !["KRW"] = @ + price]
    ELSE ("KRW" :> price) @@ seller_funds

\* variant: line 222 assigns the price instead of adding it
seller_credit_overwrite(seller_funds, price, currency) ==
    (currency :> price) @@ seller_funds

\* lines 221-224 on the seller's funds dictionary
seller_credit(seller_funds, price, currency) ==
    IF currency \in DOMAIN seller_funds
    THEN [seller_funds EXCEPT ![currency] = @ + price]
    ELSE (currency :> price) @@ seller_funds

\* lines 231-239, without the time column
new_transaction_buyer_twice(seller, buyer, item, quantity, price, currency) ==
    [seller |-> buyer, buyer |-> buyer, item |-> item, quantity |-> quantity,
     price |-> price, currency |-> currency]

new_transaction(seller, buyer, item, quantity, price, currency) ==
    [seller |-> seller, buyer |-> buyer, item |-> item,
     quantity |-> quantity, price |-> price, currency |-> currency]

\* variant: the arguments of pd.concat in the other order
concat_transactions_reversed(old, row) == <<row>> \o old

\* line 240: pd.concat([transactions, new_transaction], ignore_index=True)
concat_transactions(old, row) == Append(old, row)

\* variant: line 228 appends to the seller's list
countries_after_trade_to_seller(cs, seller, buyer, item, quantity, price, currency, r) ==
    LET debited  == [cs EXCEPT ![buyer].funds =
                         buyer_debit(cs[buyer].funds, price, currency, r)]
        credited == [debited EXCEPT ![seller].funds =
                         seller_credit(debited[seller].funds, price, currency)]
    IN [credited EXCEPT ![seller].resources =
            Append(@, new_item_str(item, quantity))]

\* lines 204-228 on st.session_state.countries, statement by statement
countries_after_trade(cs, seller, buyer, item, quantity, price, currency, r) ==
    LET debited  == [cs EXCEPT ![buyer].funds =
                         buyer_debit(cs[buyer].funds, price, currency, r)]
        credited == [debited EXCEPT ![seller].funds =
                         seller_credit(debited[seller].funds, price, currency)]
    IN [credited EXCEPT ![buyer].resources =
            Append(@, new_item_str(item, quantity))]

\* what the two dictionaries read at lines 194-199 give
BuyerFunds(buyer) == countries[buyer].funds

\* the inputs the form can submit: lines 179-185
FormInputs(seller, buyer, item, quantity, price, currency) ==
    /\ SessionComplete
    /\ FormRendered
    /\ Len(transactions) < MaxTrades
    /\ seller \in Traders /\ buyer \in Traders
    /\ item \in Items /\ quantity \in Quantities /\ price \in Prices
    /\ currency \in TradeCurrencies /\ currency \in DOMAIN rates

\* the branch of lines 190-241 a submission takes, named by what it reports:
\* st.error (191, 202), an exception (198, 218) or st.success (241)
SettleOutcome(seller, buyer, price, currency) ==
    IF SameParticipant(seller, buyer) THEN "same_participant"
    ELSE IF SumRaises(BuyerFunds(buyer), rates) THEN "TypeError"
    ELSE IF InsufficientFunds(buyer_total_krw(BuyerFunds(buyer), rates),
                              price_in_krw(price, currency, rates))
         THEN "insufficient_funds"
    ELSE IF DebitRaises(BuyerFunds(buyer), currency) THEN KeyError
    ELSE "success"

\* one submission of the trade form
Settle(seller, buyer, item, quantity, price, currency) ==
    /\ FormInputs(seller, buyer, item, quantity, price, currency)
    /\ message' = SettleOutcome(seller, buyer, price, currency)
    /\ IF message' = "success"
       THEN /\ countries' = countries_after_trade(countries, seller, buyer, item,
                                                  quantity, price, currency, rates)
            /\ transactions' = concat_transactions(transactions,
                  new_transaction(seller, buyer, item, quantity, price, currency))
       ELSE UNCHANGED <<countries, transactions>>
    /\ UNCHANGED <<initialized, calculator, fetched_rates, rates, original_rates,
                   news_active>>

-----------------------------------------------------------------------------
(* Specification *)

Currencies == {"KRW", "USD", "JPY", "CNY"}

Next ==
    \/ ToggleOn
    \/ \E i \in 1..Len(NewsCurrencies), new_rate \in RateInputs : Override(i, new_rate)
    \/ ToggleOff
    \/ \E seller \in Traders, buyer \in Traders, item \in Items,
          quantity \in Quantities, price \in Prices, currency \in TradeCurrencies :
            Settle(seller, buyer, item, quantity, price, currency)

Spec == Init /\ [][Next]_vars

\* the session from its arrival, for every result of the rate fetch
NextSession ==
    \/ \E fetched \in SessionFetchResults : FirstRun(fetched)
    \/ \E exc \in FetchRaises : FirstRunRaises(exc)
    \/ RunIncomplete
    \/ Next

SpecSession == SessionStart /\ [][NextSession]_vars

\* the session in which nobody types into a rate field: the toggle may be
\* switched, which rewrites the rates with the values they have
NextTrade ==
    \/ ToggleOn
    \/ ToggleOff
    \/ \E seller \in Traders, buyer \in Traders, item \in Items, quantity \in Quantities,
          price \in Prices, currency \in TradeCurrencies :
            Settle(seller, buyer, item, quantity, price, currency)

SpecTrade == Init /\ [][NextTrade]_vars

\* the calculator in use on a freshly initialized session, for every table
\* the initialization can leave
InitCalc == InitWith(SessionFetchResults)

NextCalc ==
    \E amount \in CalcAmounts, from_curr \in Currencies, to_curr \in Currencies :
        Calculate(amount, from_curr, to_curr)

SpecCalc == InitCalc /\ [][NextCalc]_vars

-----------------------------------------------------------------------------
(* Quantities the properties are stated in *)

ReferenceCurrency == "KRW"

\* balance of a country in a currency in the account table cs, 0 without the key
BalanceIn(cs, country, cur) ==
    IF cur \in DOMAIN cs[country].funds THEN cs[country].funds[cur] ELSE 0

\* value of a holding of currency cur in KRW at the rates r
ValueOf(amount, cur, r) == amount * r[cur]

\* the holdings of a country in the currencies of the table r, in KRW
WealthIn(cs, country, r) ==
    LET v(cur) == IF cur \in DOMAIN r THEN ValueOf(BalanceIn(cs, country, cur), cur, r)
                  ELSE 0
    IN v("KRW") + v("USD") + v("JPY") + v("CNY")

\* every currency the country holds has a rate
WealthDefined(cs, country, r) == DOMAIN cs[country].funds \subseteq DOMAIN r

\* all the accounts together, in KRW
EconomyValue(cs, r) ==
    WealthIn(cs, "Korea", r) + WealthIn(cs, "USA", r)
        + WealthIn(cs, "Japan", r) + WealthIn(cs, "China", r)

\* seq is old with exactly one element added at the end
OneAppended(old, seq) ==
    Len(seq) = Len(old) + 1 /\ SubSeq(seq, 1, Len(old)) = old

-----------------------------------------------------------------------------
(* Properties *)

\* C1: a submission whose buyer's holdings, summed over every held currency
\* in KRW at the live rates, are strictly less than the price in KRW is
\* rejected, and leaves accounts, both rate tables and the ledger unchanged.
C1_InsufficientFundsRejected ==
    [][\A seller \in Traders, buyer \in Traders, item \in Items,
          quantity \in Quantities, price \in Prices, currency \in DOMAIN rates :
            ( /\ Settle(seller, buyer, item, quantity, price, currency)
              /\ WealthDefined(countries, buyer, rates)
              /\ WealthIn(countries, buyer, rates) < ValueOf(price, currency, rates) )
            => /\ message' = IF seller = buyer THEN "same_participant"
                              ELSE "insufficient_funds"
               /\ UNCHANGED <<countries, rates, original_rates, transactions>>]_vars

\* a rejected submission after an earlier trade
C1_Witness ==
    message = "insufficient_funds" /\ Len(transactions) >= 1

\* C2: a submission with seller = buyer fails whatever the other inputs and
\* the rates are, and leaves the ledger and every account unchanged.
C2_SameParticipantRejected ==
    [][\A seller \in Traders, item \in Items, quantity \in Quantities,
          price \in Prices, currency \in DOMAIN rates :
            Settle(seller, seller, item, quantity, price, currency)
            => /\ message' = "same_participant"
               /\ UNCHANGED <<countries, transactions, rates, original_rates>>]_vars

\* a seller = buyer submission was made while a rate was overridden
C2_Witness ==
    message = "same_participant" /\ rates # original_rates

\* C3: every submission (here: of a buyer whose held currencies all have a
\* rate, so that the affordability sum is defined) either succeeds (seller #
\* buyer, the buyer's wealth covers the price) with the debit, the credit, one
\* resource and one ledger row, or is a reported failure changing nothing; no
\* submission passing the affordability check ends in an abort.
C3_SuccessOrReportedFailure ==
    [][\A seller \in Traders, buyer \in Traders, item \in Items,
          quantity \in Quantities, price \in Prices, currency \in DOMAIN rates :
            ( Settle(seller, buyer, item, quantity, price, currency)
              /\ WealthDefined(countries, buyer, rates) )
            => IF /\ seller # buyer /\ price >= 0 /\ quantity >= 1
                  /\ WealthIn(countries, buyer, rates) >= ValueOf(price, currency, rates)
               THEN /\ message' = "success"
                    /\ OneAppended(transactions, transactions')
                    /\ OneAppended(countries[buyer].resources,
                                   countries'[buyer].resources)
                    /\ BalanceIn(countries', seller, currency)
                          = BalanceIn(countries, seller, currency) + price
               ELSE /\ message' \in {"same_participant", "insufficient_funds"}
                    /\ UNCHANGED <<countries, transactions>>]_vars

\* C4: a successful submission appends exactly one ledger row carrying its
\* arguments, appends exactly one descriptor of item and quantity to the
\* buyer's resources, and adds exactly price to the seller's balance in the
\* trade currency (0 when the key was absent).
C4_SuccessEffects ==
    [][\A seller \in Traders, buyer \in Traders, item \in Items,
          quantity \in Quantities, price \in Prices, currency \in DOMAIN rates :
            ( message' = "success"
              /\ Settle(seller, buyer, item, quantity, price, currency) )
            => /\ transactions' = Append(transactions,
                     [seller |-> seller, buyer |-> buyer, item |-> item,
                      quantity |-> quantity, price |-> price, currency |-> currency])
               /\ countries'[buyer].resources
                     = Append(countries[buyer].resources, new_item_str(item, quantity))
               /\ BalanceIn(countries', seller, currency)
                     = BalanceIn(countries, seller, currency) + price]_vars

\* a trade was recorded whose seller already held the trade currency
C4_Witness ==
    /\ message = "success"
    /\ Len(transactions) >= 1
    /\ LET row == transactions[Len(transactions)]
       IN /\ row.price > 0
          /\ BalanceIn(countries, row.seller, row.currency) > row.price

\* C5: on a successful submission the buyer's balance in the trade currency
\* drops by exactly price when it covers the price, no other balance of the
\* buyer changing; otherwise it becomes 0 and the buyer's KRW balance (0 when
\* the key was absent) drops by exactly the uncovered rest converted to KRW.
\* For a trade in KRW itself the two steps are taken one after the other.
C5_BuyerDebit ==
    [][\A seller \in Traders, buyer \in Traders, item \in Items,
          quantity \in Quantities, price \in Prices, currency \in DOMAIN rates :
            ( message' = "success"
              /\ Settle(seller, buyer, item, quantity, price, currency) )
            => LET old == BalanceIn(countries, buyer, currency)
                   rest == ValueOf(price - old, currency, rates)
               IN IF old >= price
                  THEN /\ BalanceIn(countries', buyer, currency) = old - price
                       /\ \A cur \in Currencies \ {currency} :
                            BalanceIn(countries', buyer, cur)
                              = BalanceIn(countries, buyer, cur)
                  ELSE IF currency = ReferenceCurrency
                  THEN BalanceIn(countries', buyer, currency) = 0 - rest
                  ELSE /\ BalanceIn(countries', buyer, currency) = 0
                       /\ BalanceIn(countries', buyer, ReferenceCurrency)
                            = BalanceIn(countries, buyer, ReferenceCurrency) - rest]_vars

\* C6: with the live rates left alone, a successful submission leaves the
\* value of all accounts together, in KRW at the live rates, unchanged.
C6_ValueConserved ==
    [][(message' = "success" /\ transactions' # transactions /\ rates' = rates)
        => EconomyValue(countries', rates) = EconomyValue(countries, rates)]_vars

\* C7: no balance of any country in any currency is ever negative.
C7_NoNegativeBalance ==
    \A country \in CountryNames : \A cur \in DOMAIN countries[country].funds :
        countries[country].funds[cur] >= 0

\* C8: original_rates never changes, and switching the news toggle off after
\* any overrides makes the live table equal to it, every currency at once.
C8_RestoreSymmetry ==
    [][/\ original_rates' = original_rates
       /\ (news_active /\ ~news_active') => rates' = original_rates]_vars

\* the toggle was just switched off and the live table is the original one,
\* after an override: the ledger holds a purchase of 40 USD by the USA, which
\* its 30 USD cover only while the USD rate is overridden to 0
C8_Witness ==
    /\ message = "news_ended" /\ ~news_active /\ rates = original_rates
    /\ \E i \in 1..Len(transactions) :
          /\ transactions[i].buyer = "USA"
          /\ transactions[i].currency = "USD"
          /\ transactions[i].price = 40

\* C9: in the live table KRW has rate exactly 1 and every other currency a
\* strictly positive rate (a non-positive override is not applied).
C9_RatesPositive ==
    /\ rates[ReferenceCurrency] = 1
    /\ \A cur \in DOMAIN rates \ {ReferenceCurrency} : rates[cur] > 0

\* C10: the ledger starts empty; every step keeps the old rows as a prefix; a
\* step adds a row, exactly one, exactly when it is a successful submission,
\* so that the rows count the successful submissions.
C10_LedgerAppendOnly ==
    /\ transactions = <<>>
    /\ [][IF message' = "success"
          THEN OneAppended(transactions, transactions')
          ELSE transactions' = transactions]_vars

\* two different trades are in the ledger, and a restore that followed them
\* added nothing
C10_Witness ==
    /\ Len(transactions) >= 2
    /\ transactions[1] # transactions[2]
    /\ message = "news_ended"

\* the ledger rows are well formed up to the sign of the price; the price
\* bound is the parameter
LedgerRowsValid(rows, min_price) ==
    \A i \in 1..Len(rows) :
        /\ rows[i].quantity \in Nat /\ rows[i].quantity >= 1
        /\ rows[i].price >= min_price
        /\ rows[i].seller # rows[i].buyer

\* C11 as stated: every ledger record has a quantity >= 1, a strictly
\* positive price and a seller different from its buyer.  The price field of
\* the form has min_value = 0.0 (line 181), so a record with price 0 is
\* appended by a free trade.
C11_LedgerRecordsStrictlyPositive ==
    \A i \in 1..Len(transactions) :
        /\ transactions[i].quantity >= 1
        /\ transactions[i].price > 0
        /\ transactions[i].seller # transactions[i].buyer

\* C11 amended: every ledger record has a quantity that is an integer >= 1,
\* a price >= 0 (not necessarily positive), a seller different from its
\* buyer, and a currency that was a key of the live table in the step that
\* appended it.
C11_LedgerRecordsValid ==
    /\ [](LedgerRowsValid(transactions, 0))
    /\ [][Len(transactions') > Len(transactions) =>
             /\ transactions'[Len(transactions')].currency \in DOMAIN rates
             /\ LedgerRowsValid(transactions', 0)]_vars

\* a free trade and a paid one are both in the ledger, recorded while the
\* table was overridden
C11_Witness ==
    /\ \E i \in 1..Len(transactions) : transactions[i].price = 0
    /\ \E i \in 1..Len(transactions) : transactions[i].price > 0
    /\ message = "success" /\ news_active

\* what initialization is to leave in both tables for a result of the fetch
ExpectedTable(fetched) ==
    IF fetched \in FetchErrors
    THEN [KRW |-> 1, USD |-> 1400, JPY |-> 9, CNY |-> 195]
    ELSE fetched

\* C12: initialization completes for every outcome of the rate fetch; right
\* after it the live and the original table both equal the default table
\* when the fetch reported an error and the fetched mapping otherwise; once
\* a session is initialized it is never initialized again.  The first part
\* fails when the fetch raises an exception its except clauses do not catch.
C12_InitializationNeverFails ==
    /\ [][(~initialized /\ initialized') =>
             /\ SessionComplete'
             /\ rates' = ExpectedTable(fetched_rates')
             /\ original_rates' = ExpectedTable(fetched_rates')]_vars
    /\ [][initialized =>
             /\ initialized'
             /\ fetched_rates' = fetched_rates
             /\ original_rates' = original_rates]_vars

\* C13: the calculator's result is amount * rate(from) / rate(to) in the live
\* table: wherever that quotient is a whole number, the result times
\* rate(to) is amount * rate(from), and converting a currency into itself
\* gives the amount back; with the seed rates 1 USD gives 1400 KRW and
\* 1400 KRW give 1 USD.
C13_ConvertFormula ==
    LET c == calculator
        n == c.amount * rates[c.from_curr]
        d == rates[c.to_curr]
    IN  c.amount > 0 =>
          /\ n % d = 0 => c.converted * d = n
          /\ c.from_curr = c.to_curr => c.converted = c.amount
          /\ (rates = base_rates /\ c.amount = 1 /\ c.from_curr = "USD"
                /\ c.to_curr = "KRW") => c.converted = 1400
          /\ (rates = base_rates /\ c.amount = 1400 /\ c.from_curr = "KRW"
                /\ c.to_curr = "USD") => c.converted = 1

\* 1400 KRW were converted to 1 USD at the seed rates
C13_Witness ==
    /\ rates = base_rates
    /\ calculator = [amount |-> 1400, from_curr |-> "KRW", to_curr |-> "USD",
                     converted |-> 1]

\* C14: whenever the flag is off the live table equals the original one;
\* the live table changes only in a step that leaves the flag on or that
\* restores; the step that turns the flag off restores; a step with the flag
\* off before and after changes neither table.
C14_FlagOffMeansOriginal ==
    /\ [](~news_active => rates = original_rates)
    /\ [][/\ rates' # rates =>
                \/ news_active'
                \/ news_active /\ rates' = original_rates
          /\ (news_active /\ ~news_active') => rates' = original_rates
          /\ (~news_active /\ ~news_active') =>
                rates' = rates /\ original_rates' = original_rates]_vars

\* the flag is off again after Korea bought for 40 USD without paying a won,
\* which takes a USD rate overridden to 0
C14_Witness ==
    /\ ~news_active /\ message = "news_ended" /\ rates = original_rates
    /\ \E i \in 1..Len(transactions) :
          /\ transactions[i].buyer = "Korea"
          /\ transactions[i].currency = "USD"
          /\ transactions[i].price = 40
    /\ countries["Korea"].funds = [KRW |-> 50000]

\* what a settlement at the table r has to take from the buyer's KRW balance:
\* the part of the price the buyer's balance in the trade currency does not
\* cover, valued at r
ShortfallAt(funds, price, currency, r) ==
    IF currency \in DOMAIN funds
    THEN ValueOf(price - funds[currency], currency, r)
    ELSE ValueOf(price, currency, r)

\* C15: a settlement uses the rates of the live table as it is in the step
\* that runs it, overridden or restored: the request is rejected for
\* insufficient funds exactly when the buyer's holdings valued at the live
\* rates are below the price valued at the live rate, and a shortfall is
\* taken from the buyer's KRW balance at the live rate; with the flag off
\* these are the original rates.
C15_SettleUsesLiveRates ==
    [][\A seller \in Traders, buyer \in Traders, item \in Items,
          quantity \in Quantities, price \in Prices, currency \in TradeCurrencies :
          ( /\ Settle(seller, buyer, item, quantity, price, currency)
            /\ seller # buyer
            /\ WealthDefined(countries, buyer, rates) )
          => LET funds == countries[buyer].funds
                 short == \/ currency \notin DOMAIN funds
                          \/ currency # "KRW" /\ funds[currency] < price
             IN /\ message' = "insufficient_funds" <=>
                      WealthIn(countries, buyer, rates) < ValueOf(price, currency, rates)
                /\ (message' = "success" /\ short /\ "KRW" \in DOMAIN funds) =>
                      countries'[buyer].funds["KRW"] =
                          funds["KRW"] - ShortfallAt(funds, price, currency, rates)
                /\ ~news_active =>
                      (message' = "insufficient_funds" <=>
                         WealthIn(countries, buyer, original_rates)
                           < ValueOf(price, currency, original_rates))]_vars

\* while USD is overridden to 0, Korea has bought for 40 USD it does not hold
\* and its KRW balance was debited 0
C15_Witness ==
    /\ news_active /\ message = "success" /\ rates # original_rates
    /\ Len(transactions) >= 1
    /\ transactions[Len(transactions)].buyer = "Korea"
    /\ transactions[Len(transactions)].currency = "USD"
    /\ transactions[Len(transactions)].price = 40
    /\ countries["Korea"].funds["KRW"] = 50000

\* old is a prefix of seq
IsPrefix(old, seq) ==
    Len(old) <= Len(seq) /\ SubSeq(seq, 1, Len(old)) = old

\* C16: in every step each country's resource list keeps its former content
\* as a prefix; a successful submission adds exactly one descriptor, made of
\* the item and the quantity of the recorded trade, to the buyer's list and
\* leaves every other list, the seller's included, as it was; every other
\* step (rejected or failed submission, override, restore) changes no list.
C16_ResourcesOnlyGrow ==
    [][/\ \A c \in CountryNames :
             IsPrefix(countries[c].resources, countries'[c].resources)
       /\ IF message' = "success"
          THEN LET row == transactions'[Len(transactions')]
               IN /\ countries'[row.buyer].resources =
                        countries[row.buyer].resources
                          \o << row.item \o " " \o ToString(row.quantity) \o "gae" >>
                  /\ \A c \in CountryNames \ {row.buyer} :
                        countries'[c].resources = countries[c].resources
          ELSE \A c \in CountryNames :
                   countries'[c].resources = countries[c].resources]_vars

\* Korea received one delivery from the USA, whose list is as at the start,
\* and the last submission was rejected
C16_Witness ==
    /\ message = "insufficient_funds"
    /\ countries["Korea"].resources = <<"rice", "electronics", "cocoa 3gae">>
    /\ countries["USA"].resources = <<"wheat", "cacao">>
    /\ Len(transactions) = 1 /\ transactions[1].seller = "USA"

\* the balance of country c in currency cur is not the same in old and new:
\* the entry appeared, disappeared or changed its amount
BalanceDiffers(old, new, c, cur) ==
    \/ (cur \in DOMAIN old[c].funds) # (cur \in DOMAIN new[c].funds)
    \/ /\ cur \in DOMAIN old[c].funds
       /\ cur \in DOMAIN new[c].funds
       /\ old[c].funds[cur] # new[c].funds[cur]

\* C17: a successful submission changes no balance but the buyer's in the
\* trade currency and in KRW and the seller's in the trade currency, leaves
\* the account of every country other than buyer and seller as it was, and
\* leaves both rate tables and the flag; a step that changes the live table
\* or the flag leaves every account and the ledger; the countries are the
\* same four in every state.
C17_Frame ==
    /\ [](DOMAIN countries = CountryNames)
    /\ [][/\ message' = "success" =>
               LET row == transactions'[Len(transactions')]
               IN /\ \A c \in CountryNames, cur \in Currencies :
                        BalanceDiffers(countries, countries', c, cur) =>
                           \/ c = row.buyer /\ cur \in {row.currency, ReferenceCurrency}
                           \/ c = row.seller /\ cur = row.currency
                  /\ \A c \in CountryNames :
                        DOMAIN countries'[c].funds \subseteq Currencies
                  /\ \A c \in CountryNames \ {row.buyer, row.seller} :
                        countries'[c] = countries[c]
                  /\ UNCHANGED <<rates, original_rates, news_active>>
          /\ (rates' # rates \/ news_active' # news_active) =>
               UNCHANGED <<countries, transactions>>
          /\ DOMAIN countries' = DOMAIN countries]_vars

\* Korea bought from the USA for 40 JPY it does not hold and paid 360 KRW,
\* the USA holds the 40 JPY next to its USD, Japan's account is as at the
\* start; then the table was overridden and restored
C17_Witness ==
    /\ message = "news_ended"
    /\ transactions = << [seller |-> "USA", buyer |-> "Korea", item |-> "cocoa",
                          quantity |-> 3, price |-> 40, currency |-> "JPY"] >>
    /\ countries["Korea"].funds = [KRW |-> 49640]
    /\ countries["USA"].funds = [USD |-> 30, JPY |-> 40]
    /\ countries["Japan"] = InitialCountries["Japan"]

\* C18: once the session is initialized, whatever the rate fetch returned,
\* every currency some country holds and each of USD, JPY, CNY and KRW is a
\* key of the live table.  It fails right after an initialization whose
\* fetch succeeded without finding all three currencies in the response.
C18_RatesCoverCurrencies ==
    SessionComplete =>
        /\ \A c \in DOMAIN countries : DOMAIN countries[c].funds \subseteq DOMAIN rates
        /\ {"USD", "JPY", "CNY", "KRW"} \subseteq DOMAIN rates

\* C19: as long as no rate is overridden, every country whose currencies all
\* have a rate holds, summed over its balances in KRW at the live rates, a
\* total that is not negative, whatever trades were settled and even when
\* one of its balances is negative.
C19_WealthNotNegative ==
    \A c \in CountryNames :
        WealthDefined(countries, c, rates) => WealthIn(countries, c, rates) >= 0

\* the USA holds a negative KRW balance after two trades, and USD worth more
C19_Witness ==
    /\ Len(transactions) = 2
    /\ rates = base_rates
    /\ "KRW" \in DOMAIN countries["USA"].funds
    /\ countries["USA"].funds["KRW"] < 0
    /\ WealthIn(countries, "USA", rates) > 0

====
